---- MODULE Spec2Model ----
(***************************************************************************)
(* Dataset builders of KoDNLP: src/data/builder.py (DatasetBuilder,        *)
(* NERDatasetBuilder, SLUDatasetBuilder) and src/data_manager/utils.py     *)
(* (create_builder, load_vocab_file, load_vocab_dir).                      *)
(*                                                                         *)
(* A line of text is a sequence of one-character strings, a token is a     *)
(* non-empty line without whitespace, a path is a sequence of path         *)
(* components.  data/vocab.py (class Vocabulary) is not part of the        *)
(* sources at hand: the operators of the section "Vocabulary" follow       *)
(* section 4.1 of the specification.                                       *)
(***************************************************************************)
EXTENDS Integers, Sequences, FiniteSets

VARIABLES
    kind,             \* "ner" (NERDatasetBuilder) or "slu" (SLUDatasetBuilder)
    raw_input,        \* self._raw_input
    raw_label,        \* self._raw_label
    raw_class,        \* self._raw_class (SLU; <<>> for NER)
    input_vocab,      \* self._input_vocab
    label_vocab,      \* self._label_vocab
    class_vocab,      \* self._class_vocab (SLU; None for NER)
    train_data_path,  \* self._train_data_path
    valid_data_path,  \* self._valid_data_path
    files,            \* the JSON files on disk: path -> content
    shuffle,          \* the permutation train_test_split draws for RANDOM_SEED
    calls,            \* the number of calls made so far
    args,             \* the arguments of the last call
    result            \* the outcome of the last call: what it raised, returned and read

vars == <<kind, raw_input, raw_label, raw_class, input_vocab, label_vocab, class_vocab,
          train_data_path, valid_data_path, files, shuffle, calls, args, result>>

(***************************************************************************)
(* Bounds                                                                  *)
(***************************************************************************)
\* the longest line SpecNumerize draws
MaxLineLen == 3
\* the most lines SpecNumerize passes to _numerize_from_text
MaxLines == 2
\* the largest max_size passed to build_vocabulary
MaxVocabSize == 2
\* the largest min_freq passed to build_vocabulary
MaxMinFreq == 2
\* the most calls of one run
MaxCalls == 3

(***************************************************************************)
(* Text                                                                    *)
(***************************************************************************)
Whitespace == {" "}

Chars == {"a", " "}

\* str.rstrip()
rstrip(s) ==
    LET RECURSIVE strip(_)
        strip(n) == IF n = 0 THEN <<>>
                    ELSE IF s[n] \in Whitespace THEN strip(n - 1)
                    ELSE SubSeq(s, 1, n)
    IN strip(Len(s))

\* str.split(' '): a token between any two separators, the empty ones too
split_on_each_separator(s) ==
    LET RECURSIVE scan(_, _, _)
        scan(i, cur, acc) ==
            IF i > Len(s) THEN Append(acc, cur)
            ELSE IF s[i] \in Whitespace THEN scan(i + 1, <<>>, Append(acc, cur))
            ELSE scan(i + 1, Append(cur, s[i]), acc)
    IN scan(1, <<>>, <<>>)

\* str.split(): the maximal runs of non-whitespace characters, in order
split(s) ==
    LET RECURSIVE scan(_, _, _)
        scan(i, cur, acc) ==
            IF i > Len(s) THEN (IF cur = <<>> THEN acc ELSE Append(acc, cur))
            ELSE IF s[i] \in Whitespace
                 THEN scan(i + 1, <<>>, IF cur = <<>> THEN acc ELSE Append(acc, cur))
                 ELSE scan(i + 1, Append(cur, s[i]), acc)
    IN scan(1, <<>>, <<>>)

\* DatasetBuilder._splitify
_splitify(data) == [i \in 1..Len(data) |-> split(data[i])]

\* _load_text that skips the blank lines of the file
_load_text_skipping_blank(lines) ==
    SelectSeq([i \in 1..Len(lines) |-> rstrip(lines[i])], LAMBDA l : l # <<>>)

\* DatasetBuilder._load_text on a file holding `lines`: one entry per line of the
\* file, each stripped of its trailing whitespace
_load_text(lines) == [i \in 1..Len(lines) |-> rstrip(lines[i])]

(***************************************************************************)
(* Vocabulary (data/vocab.py, after section 4.1 of the specification)      *)
(***************************************************************************)
\* Python's None where a token is expected
NoToken == <<"None">>

UNK == <<"<unk>">>
PAD == <<"<pad>">>
BOS == <<"<bos>">>
EOS == <<"<eos>">>

\* max_size=None
NoMaxSize == 0

\* Python's None where a Vocabulary is expected
None ==
    [present |-> FALSE, max_size |-> NoMaxSize, min_freq |-> 1,
     unknown_token |-> NoToken, padding_token |-> NoToken,
     bos_token |-> NoToken, eos_token |-> NoToken, idx_to_word |-> <<>>]

\* Vocabulary(max_size, min_freq, unknown_token, padding_token, bos_token, eos_token)
Vocabulary(max_size, min_freq, unk, pad, bos, eos) ==
    [present |-> TRUE, max_size |-> max_size, min_freq |-> min_freq,
     unknown_token |-> unk, padding_token |-> pad,
     bos_token |-> bos, eos_token |-> eos, idx_to_word |-> <<>>]

\* the configured special tokens in their canonical order
SpecialTokens(v) ==
    SelectSeq(<<v.unknown_token, v.padding_token, v.bos_token, v.eos_token>>,
              LAMBDA t : t # NoToken)

\* the concatenation of the token sequences
Flatten(seqs) ==
    LET RECURSIVE cat(_)
        cat(i) == IF i > Len(seqs) THEN <<>> ELSE seqs[i] \o cat(i + 1)
    IN cat(1)

Range(s) == {s[i] : i \in 1..Len(s)}

\* the number of occurrences of t in the token sequence s
Frequency(s, t) == Cardinality({i \in 1..Len(s) : s[i] = t})

\* the position of the first occurrence of t in s (0 when there is none)
FirstIndex(s, t) ==
    IF t \in Range(s) THEN CHOOSE i \in 1..Len(s) : s[i] = t /\ \A j \in 1..(i - 1) : s[j] # t
    ELSE 0

\* the distinct tokens of s by descending frequency, ties by first appearance
RankedTokens(s) ==
    LET Before(t, u) == \/ Frequency(s, t) > Frequency(s, u)
                        \/ /\ Frequency(s, t) = Frequency(s, u)
                           /\ FirstIndex(s, t) < FirstIndex(s, u)
        RECURSIVE rank(_)
        rank(left) == IF left = {} THEN <<>>
                      ELSE LET t == CHOOSE t \in left : \A u \in left \ {t} : Before(t, u)
                           IN <<t>> \o rank(left \ {t})
    IN rank(Range(s))

\* Vocabulary.fit: the special tokens first, then the tokens seen at least min_freq
\* times by descending frequency, at most max_size of them
fit(v, tokenized) ==
    LET s       == Flatten(tokenized)
        special == SpecialTokens(v)
        ranked  == SelectSeq(RankedTokens(s),
                             LAMBDA t : Frequency(s, t) >= v.min_freq /\ t \notin Range(special))
        kept    == IF v.max_size = NoMaxSize \/ Len(ranked) <= v.max_size THEN ranked
                   ELSE SubSeq(ranked, 1, v.max_size)
    IN [v EXCEPT !.idx_to_word = special \o kept]

\* the zero-based index of token t in v (-1 when v does not hold it)
IndexOf(v, t) == FirstIndex(v.idx_to_word, t) - 1

\* Vocabulary.to_indices: a token v does not hold maps to the unknown token's index,
\* and the call fails when v reserves none
to_indices(v, tokens) ==
    LET known(t) == t \in Range(v.idx_to_word)
    IN IF \E i \in 1..Len(tokens) : ~known(tokens[i]) /\ v.unknown_token = NoToken
       THEN [exc |-> "ConfigurationError", val |-> <<>>]
       ELSE [exc |-> "None",
             val |-> [i \in 1..Len(tokens) |->
                        IF known(tokens[i]) THEN IndexOf(v, tokens[i])
                        ELSE IndexOf(v, v.unknown_token)]]

\* Vocabulary.to_json: the token -> index mapping and the special tokens
to_json(v) ==
    [word_to_idx |-> {<<v.idx_to_word[i], i - 1>> : i \in 1..Len(v.idx_to_word)},
     max_size |-> v.max_size, min_freq |-> v.min_freq,
     unknown_token |-> v.unknown_token, padding_token |-> v.padding_token,
     bos_token |-> v.bos_token, eos_token |-> v.eos_token]

\* Vocabulary.from_json: the vocabulary a vocabulary file describes
from_json(json) ==
    [present |-> TRUE, max_size |-> json.max_size, min_freq |-> json.min_freq,
     unknown_token |-> json.unknown_token, padding_token |-> json.padding_token,
     bos_token |-> json.bos_token, eos_token |-> json.eos_token,
     idx_to_word |-> [i \in 1..Cardinality(json.word_to_idx) |->
                        (CHOOSE p \in json.word_to_idx : p[2] = i - 1)[1]]]

(***************************************************************************)
(* Files                                                                   *)
(***************************************************************************)
\* configs.constants
INPUT_VOCAB_FILENAME == "input_vocab.json"
TAG_VOCAB_FILENAME == "tag_vocab.json"
CLASS_VOCAB_FILENAME == "class_vocab.json"
TRAIN_DATASET_FILENAME == "train_dataset.json"
VALIDATION_DATASET_FILENAME == "valid_dataset.json"
INSTANT_DATASET_FILENAME == "instant_dataset.json"

\* pathlib's dir / name
Join(dir, name) == Append(dir, name)

\* the directory the builders are deployed to
DeployPath == <<"tmp", "dataset">>

\* Python's None where a path is expected
NoPath == <<>>

\* the text files on disk, each a sequence of lines
TextFile(path) ==
    CASE path = "input.txt"      -> << <<"a", " ", "b">>, <<"b", " ", "c", " ">>, <<"b">> >>
      [] path = "label.txt"      -> << <<"O", " ", "B">>, <<"O", " ", "O">>, <<"O">> >>
      [] path = "label_short.txt" -> << <<"O", " ", "B">>, <<"O", " ", "O">> >>
      [] path = "class.txt"      -> << <<"f">>, <<"w">>, <<"f">> >>
      [] path = "class_ws.txt"   -> << <<"f">>, <<"f", " ", "w">>, <<"w">> >>
      [] path = "new_input.txt"  -> << <<"b", " ", "z">>, <<>> >>
      [] path = "new_label.txt"  -> << <<"B", " ", "O">>, <<>> >>
      [] path = "new_label_unseen.txt" -> << <<"B", " ", "I">>, <<>> >>
      [] path = "new_class.txt"  -> << <<"w">>, <<"f">> >>
      [] path = "empty.txt"      -> << >>

InputPaths == {"input.txt"}
LabelPaths == {"label.txt", "label_short.txt"}
ClassPaths == {"class.txt", "class_ws.txt"}

\* vocabularies fitted elsewhere, as a caller may pass them to a constructor
GivenInputVocab == fit(Vocabulary(NoMaxSize, 1, UNK, PAD, BOS, EOS), << <<<<"b">>>> >>)
GivenLabelVocab == fit(Vocabulary(NoMaxSize, 1, NoToken, PAD, BOS, EOS),
                       << <<<<"B">>, <<"O">>>> >>)
GivenClassVocab == fit(Vocabulary(NoMaxSize, 1, NoToken, NoToken, NoToken, NoToken),
                       << <<<<"f">>>> >>)

(***************************************************************************)
(* DatasetBuilder                                                          *)
(***************************************************************************)
\* the builder and the disk as one value
Self ==
    [kind |-> kind, _raw_input |-> raw_input, _raw_label |-> raw_label,
     _raw_class |-> raw_class, _input_vocab |-> input_vocab,
     _label_vocab |-> label_vocab, _class_vocab |-> class_vocab,
     _train_data_path |-> train_data_path, _valid_data_path |-> valid_data_path,
     files |-> files]

\* a call's outcome: the builder and disk it leaves, what it raised and returned
Outcome(self, exc, value, reads) == [self |-> self, exc |-> exc, value |-> value, reads |-> reads]

\* open(json_path, 'w') and json.dump
Written(fs, path, obj) == [p \in DOMAIN fs \cup {path} |-> IF p = path THEN obj ELSE fs[p]]

\* DatasetBuilder._numerize_from_text: the index sequence of every line in order, or
\* the first failure; vocab.to_indices on an absent vocabulary is an AttributeError
_numerize_from_text(data, vocab) ==
    LET splited_data == _splitify(data)
        indices == [i \in 1..Len(splited_data) |-> to_indices(vocab, splited_data[i])]
        failed == {i \in 1..Len(splited_data) : indices[i].exc # "None"}
    IN IF splited_data = <<>> THEN [exc |-> "None", val |-> <<>>]
       ELSE IF ~vocab.present THEN [exc |-> "AttributeError", val |-> <<>>]
       ELSE IF failed # {} THEN [exc |-> indices[CHOOSE i \in failed : \A j \in failed : i <= j].exc,
                                 val |-> <<>>]
       ELSE [exc |-> "None", val |-> [i \in 1..Len(splited_data) |-> indices[i].val]]

\* NERDatasetBuilder.__init__ / SLUDatasetBuilder.__init__ on a disk fs
Construct(k, input_path, label_path, class_path, iv, lv, cv, fs) ==
    [kind |-> k,
     _raw_input |-> _load_text(TextFile(input_path)),
     _raw_label |-> _load_text(TextFile(label_path)),
     _raw_class |-> IF k = "slu" THEN _load_text(TextFile(class_path)) ELSE <<>>,
     _input_vocab |-> iv, _label_vocab |-> lv,
     _class_vocab |-> IF k = "slu" THEN cv ELSE None,
     _train_data_path |-> <<>>, _valid_data_path |-> <<>>,
     files |-> fs]

\* build_vocabulary that keeps an input vocabulary the builder already holds
KeptInputVocab(self, max_size, min_freq) ==
    IF self._input_vocab.present THEN self._input_vocab
    ELSE fit(Vocabulary(max_size, min_freq, UNK, PAD, NoToken, NoToken),
             _splitify(self._raw_input))

\* build_vocabulary that prunes the tag vocabulary like the input vocabulary
PrunedLabelVocab(self, max_size, min_freq) ==
    fit(Vocabulary(max_size, min_freq, NoToken, PAD, BOS, EOS), _splitify(self._raw_label))

\* the input vocabulary build_vocabulary(max_size, min_freq) fits
FittedInputVocab(self, max_size, min_freq) ==
    fit(Vocabulary(max_size, min_freq, UNK, PAD, NoToken, NoToken), _splitify(self._raw_input))

\* the tag vocabulary build_vocabulary(max_size, min_freq) fits
FittedLabelVocab(self, max_size, min_freq) ==
    fit(Vocabulary(NoMaxSize, 1, NoToken, PAD, BOS, EOS), _splitify(self._raw_label))

\* the class vocabulary SLUDatasetBuilder.build_vocabulary(max_size, min_freq) fits: on
\* the raw lines, every line one token
FittedClassVocab(self, max_size, min_freq) ==
    fit(Vocabulary(NoMaxSize, 1, NoToken, NoToken, NoToken, NoToken), <<self._raw_class>>)

\* build_vocabulary of both builders
build_vocabulary(self, max_size, min_freq) ==
    LET iv == FittedInputVocab(self, max_size, min_freq)
        lv == FittedLabelVocab(self, max_size, min_freq)
        cv == FittedClassVocab(self, max_size, min_freq)
        fs1 == Written(self.files, Join(DeployPath, INPUT_VOCAB_FILENAME), to_json(iv))
        fs2 == Written(fs1, Join(DeployPath, TAG_VOCAB_FILENAME), to_json(lv))
        fs3 == Written(fs2, Join(DeployPath, CLASS_VOCAB_FILENAME), to_json(cv))
    IN IF self.kind = "ner"
       THEN Outcome([self EXCEPT !._input_vocab = iv, !._label_vocab = lv, !.files = fs2],
                    "None", <<>>, {})
       ELSE Outcome([self EXCEPT !._input_vocab = iv, !._label_vocab = lv,
                                 !._class_vocab = cv, !.files = fs3],
                    "None", <<>>, {})

\* test_size=0.1, in percent
TestSizePercent == 10

\* a split that shuffles every stream after the first on its own
train_test_split_unaligned(streams, perm) ==
    LET n == Len(streams[1])
        n_test == (n + 9) \div 10
        n_train == n - n_test
        at(s, i) == IF s = 1 THEN perm[i] ELSE n + 1 - perm[i]
        take(s, from, count) == [i \in 1..count |-> streams[s][at(s, from + i)]]
    IN IF (\E s \in 1..Len(streams) : Len(streams[s]) # n) \/ n_train = 0
       THEN [exc |-> "ValueError", train |-> <<>>, test |-> <<>>]
       ELSE [exc |-> "None",
             train |-> [s \in 1..Len(streams) |-> take(s, n_test, n_train)],
             test |-> [s \in 1..Len(streams) |-> take(s, 0, n_test)]]

\* train_test_split(*streams, test_size, random_state): the lines of every stream at
\* the same shuffled indices, the first n_test of them for the test partition
train_test_split(streams, perm) ==
    LET n == Len(streams[1])
        n_test == (n * TestSizePercent + 99) \div 100
        n_train == n - n_test
        take(stream, from, count) == [i \in 1..count |-> stream[perm[from + i]]]
    IN IF (\E s \in 1..Len(streams) : Len(streams[s]) # n) \/ n_train = 0
       THEN [exc |-> "ValueError", train |-> <<>>, test |-> <<>>]
       ELSE [exc |-> "None",
             train |-> [s \in 1..Len(streams) |-> take(streams[s], n_test, n_train)],
             test |-> [s \in 1..Len(streams) |-> take(streams[s], 0, n_test)]]

\* _split_into_valid_and_train that splits the streams one by one, each with its own draw
_split_streams_apart(self, perm) ==
    IF self.kind = "ner"
    THEN train_test_split_unaligned(<<self._raw_input, self._raw_label>>, perm)
    ELSE train_test_split_unaligned(<<self._raw_input, self._raw_label, self._raw_class>>, perm)

\* _split_into_valid_and_train of both builders
_split_into_valid_and_train(self, perm) ==
    IF self.kind = "ner"
    THEN train_test_split(<<self._raw_input, self._raw_label>>, perm)
    ELSE train_test_split(<<self._raw_input, self._raw_label, self._raw_class>>, perm)

\* the fields of one partition, numerized in the order of the code
NumerizePartition(self, part) ==
    LET inputs == _numerize_from_text(part[1], self._input_vocab)
        labels == _numerize_from_text(part[2], self._label_vocab)
        intents == IF self.kind = "slu" THEN _numerize_from_text(part[3], self._class_vocab)
                   ELSE [exc |-> "None", val |-> <<>>]
        exc == IF inputs.exc # "None" THEN inputs.exc
               ELSE IF labels.exc # "None" THEN labels.exc
               ELSE intents.exc
    IN [exc |-> exc,
        data |-> IF self.kind = "ner"
                 THEN [inputs |-> inputs.val, entities |-> labels.val]
                 ELSE [inputs |-> inputs.val, slots |-> labels.val, intents |-> intents.val]]

\* the absent-vocabulary check that opens build_trainable_dataset
VocabularyMissing(self) == ~self._input_vocab.present \/ ~self._label_vocab.present

\* build_trainable_dataset that saves the train partition before it numerizes the
\* validation partition
build_trainable_dataset_saving_early(self, train_arg, valid_arg, perm, unwritable) ==
    LET train_path == IF train_arg = NoPath THEN Join(DeployPath, TRAIN_DATASET_FILENAME)
                      ELSE train_arg
        valid_path == IF valid_arg = NoPath THEN Join(DeployPath, VALIDATION_DATASET_FILENAME)
                      ELSE valid_arg
        raw == _split_into_valid_and_train(self, perm)
        train_data == NumerizePartition(self, raw.train)
        valid_data == NumerizePartition(self, raw.test)
        fs1 == Written(self.files, train_path, train_data.data)
        fs2 == Written(fs1, valid_path, valid_data.data)
    IN IF VocabularyMissing(self) THEN Outcome(self, "ValueError", <<>>, {})
       ELSE IF raw.exc # "None" THEN Outcome(self, raw.exc, <<>>, {})
       ELSE IF train_data.exc # "None" THEN Outcome(self, train_data.exc, <<>>, {})
       ELSE IF train_path \in unwritable THEN Outcome(self, "IOError", <<>>, {})
       ELSE IF valid_data.exc # "None"
            THEN Outcome([self EXCEPT !.files = fs1], valid_data.exc, <<>>, {})
       ELSE IF valid_path \in unwritable
            THEN Outcome([self EXCEPT !.files = fs1], "IOError", <<>>, {})
       ELSE Outcome([self EXCEPT !.files = fs2,
                                 !._train_data_path = Append(@, train_path),
                                 !._valid_data_path = Append(@, valid_path)],
                    "None", <<>>, {})

\* build_trainable_dataset of both builders; `unwritable` are the paths open() fails on
build_trainable_dataset(self, train_arg, valid_arg, perm, unwritable) ==
    LET train_path == IF train_arg = NoPath THEN Join(DeployPath, TRAIN_DATASET_FILENAME)
                      ELSE train_arg
        valid_path == IF valid_arg = NoPath THEN Join(DeployPath, VALIDATION_DATASET_FILENAME)
                      ELSE valid_arg
        raw == _split_into_valid_and_train(self, perm)
        train_data == NumerizePartition(self, raw.train)
        valid_data == NumerizePartition(self, raw.test)
        fs1 == Written(self.files, train_path, train_data.data)
        fs2 == Written(fs1, valid_path, valid_data.data)
    IN IF VocabularyMissing(self) THEN Outcome(self, "ValueError", <<>>, {})
       ELSE IF raw.exc # "None" THEN Outcome(self, raw.exc, <<>>, {})
       ELSE IF train_data.exc # "None" THEN Outcome(self, train_data.exc, <<>>, {})
       ELSE IF valid_data.exc # "None" THEN Outcome(self, valid_data.exc, <<>>, {})
       ELSE IF train_path \in unwritable THEN Outcome(self, "IOError", <<>>, {})
       ELSE IF valid_path \in unwritable
            THEN Outcome([self EXCEPT !.files = fs1], "IOError", <<>>, {})
       ELSE Outcome([self EXCEPT !.files = fs2,
                                 !._train_data_path = Append(@, train_path),
                                 !._valid_data_path = Append(@, valid_path)],
                    "None", <<>>, {})

\* build_data_loader of both builders: the datasets read from the recorded paths
build_data_loader(self) ==
    IF self._train_data_path = <<>> \/ self._valid_data_path = <<>>
    THEN Outcome(self, "IndexError", <<>>, {})
    ELSE Outcome(self, "None",
                 [train |-> self.files[self._train_data_path[1]],
                  valid |-> self.files[self._valid_data_path[1]]],
                 {self._train_data_path[1], self._valid_data_path[1]})

\* SLUDatasetBuilder.build_instant_data_loader
build_instant_data_loader(self, input_path, label_path, class_path, data_arg) ==
    LET data_path == IF data_arg = NoPath THEN Join(DeployPath, INSTANT_DATASET_FILENAME)
                     ELSE data_arg
        inputs == _numerize_from_text(_load_text(TextFile(input_path)), self._input_vocab)
        slots == _numerize_from_text(_load_text(TextFile(label_path)), self._label_vocab)
        intents == _numerize_from_text(_load_text(TextFile(class_path)), self._class_vocab)
        instant_data == [inputs |-> inputs.val, slots |-> slots.val, intents |-> intents.val]
        fs == Written(self.files, data_path, instant_data)
    IN IF inputs.exc # "None" THEN Outcome(self, inputs.exc, <<>>, {})
       ELSE IF slots.exc # "None" THEN Outcome(self, slots.exc, <<>>, {})
       ELSE IF intents.exc # "None" THEN Outcome(self, intents.exc, <<>>, {})
       ELSE Outcome([self EXCEPT !.files = fs], "None", fs[data_path], {data_path})

(***************************************************************************)
(* data_manager/utils.py                                                   *)
(***************************************************************************)
\* reading a file that is not on disk is an IOError
Missing(fs, path) == path \notin DOMAIN fs

\* load_vocab_file
load_vocab_file(fs, file_path) ==
    IF Missing(fs, file_path) THEN [exc |-> "IOError", val |-> None]
    ELSE [exc |-> "None", val |-> from_json(fs[file_path])]

\* load_vocab_dir whose 'slu' branch loads what the 'ner' branch loads
ExpectedVocabFilesOfNer(type) ==
    IF type = "ner" \/ type = "word_segment" \/ type = "slu"
    THEN << <<"input_vocab", INPUT_VOCAB_FILENAME>>, <<"label_vocab", TAG_VOCAB_FILENAME>> >>
    ELSE <<>>

\* the vocabulary files load_vocab_dir expects for a task type, in the order it reads them
ExpectedVocabFiles(type) ==
    IF type = "ner" \/ type = "word_segment"
    THEN << <<"input_vocab", INPUT_VOCAB_FILENAME>>, <<"label_vocab", TAG_VOCAB_FILENAME>> >>
    ELSE IF type = "slu"
    THEN << <<"input_vocab", INPUT_VOCAB_FILENAME>>, <<"label_vocab", TAG_VOCAB_FILENAME>>,
            <<"class_vocab", CLASS_VOCAB_FILENAME>> >>
    ELSE <<>>

\* load_vocab_dir: the vocabularies keyed by role; it stops at the first file it cannot read
load_vocab_dir(self, type, dir_path) ==
    LET expected == ExpectedVocabFiles(type)
        path(i) == Join(Join(dir_path, "dataset"), expected[i][2])
        unreadable == {i \in 1..Len(expected) : Missing(self.files, path(i))}
        first == CHOOSE i \in unreadable : \A j \in unreadable : i <= j
        roles == {expected[i][1] : i \in 1..Len(expected)}
        of(role) == CHOOSE i \in 1..Len(expected) : expected[i][1] = role
    IN IF expected = <<>> THEN Outcome(self, "ValueError", <<>>, {})
       ELSE IF unreadable # {}
            THEN Outcome(self, "IOError", <<>>, {path(i) : i \in 1..first})
       ELSE Outcome(self, "None",
                    [role \in roles |-> load_vocab_file(self.files, path(of(role))).val],
                    {path(i) : i \in 1..Len(expected)})

\* 'vocab_min_freq' not in dataset_configs
NoMinFreq == 0

\* body(x) with x bound to the value of e: one statement after another
Then(e, body(_)) == CHOOSE r \in {body(x) : x \in {e}} : TRUE

\* create_builder: the builder it returns, or the builder at hand when it raises
create_builder(self, type, dataset_configs, perm, unwritable) ==
    LET min_freq == IF dataset_configs.vocab_min_freq # NoMinFreq
                    THEN dataset_configs.vocab_min_freq ELSE 1
        Build(input_vocab_) ==
            Then(Construct(type, dataset_configs.input, dataset_configs.label,
                           dataset_configs.class, input_vocab_, None, None, self.files),
                 LAMBDA made :
            Then(build_vocabulary(made, NoMaxSize, min_freq), LAMBDA fitted :
            Then(build_trainable_dataset(fitted.self, NoPath, NoPath, perm, unwritable),
                 LAMBDA built :
                 IF built.exc # "None"
                 THEN Outcome([self EXCEPT !.files = built.self.files], built.exc, <<>>, {})
                 ELSE Outcome(built.self, "None", <<>>, {}))))
    IN Then(IF dataset_configs.vocab_path # NoPath
            THEN load_vocab_file(self.files, dataset_configs.vocab_path)
            ELSE [exc |-> "None", val |-> None],
            LAMBDA loaded :
            IF loaded.exc # "None"
            THEN Outcome(self, loaded.exc, <<>>, {dataset_configs.vocab_path})
            ELSE IF type \notin {"ner", "slu"}
            THEN Outcome(self, "NotImplementedError", <<>>, {})
            ELSE Build(loaded.val))

(***************************************************************************)
(* The state machine                                                       *)
(***************************************************************************)
\* the permutations of 1..n
ShufflesOf(n) ==
    {p \in [1..n -> 1..n] : \A i, j \in 1..n : p[i] = p[j] => i = j}

\* the numbers of lines of the corpora on disk
CorpusSizes == {Len(TextFile(p)) : p \in InputPaths}

\* a vocabulary file fitted elsewhere, for dataset_configs['vocab_path']
GivenVocabPath == <<"pretrained", "vocab.json">>

InitialFiles == [p \in {GivenVocabPath} |-> to_json(GivenInputVocab)]

AltTrainPath == <<"alt", "train.json">>
AltValidPath == <<"alt", "valid.json">>

\* the max_size and min_freq handed to build_vocabulary
MaxSizes == {NoMaxSize, MaxVocabSize}
MinFreqs == {1, MaxMinFreq}

Install(self) ==
    /\ kind' = self.kind
    /\ raw_input' = self._raw_input
    /\ raw_label' = self._raw_label
    /\ raw_class' = self._raw_class
    /\ input_vocab' = self._input_vocab
    /\ label_vocab' = self._label_vocab
    /\ class_vocab' = self._class_vocab
    /\ train_data_path' = self._train_data_path
    /\ valid_data_path' = self._valid_data_path
    /\ files' = self.files

Return(op, a, outcome) ==
    /\ calls' = calls + 1
    /\ \E out \in {outcome} :
          /\ Install(out.self)
          /\ result' = [op |-> op, exc |-> out.exc, value |-> out.value, reads |-> out.reads]
    /\ args' = a
    /\ UNCHANGED shuffle

Shuffles ==
    {f \in [CorpusSizes -> UNION {ShufflesOf(n) : n \in CorpusSizes}] :
       \A n \in CorpusSizes : f[n] \in ShufflesOf(n)}

Start(self) ==
    /\ kind = self.kind
    /\ raw_input = self._raw_input
    /\ raw_label = self._raw_label
    /\ raw_class = self._raw_class
    /\ input_vocab = self._input_vocab
    /\ label_vocab = self._label_vocab
    /\ class_vocab = self._class_vocab
    /\ train_data_path = self._train_data_path
    /\ valid_data_path = self._valid_data_path
    /\ files = self.files
    /\ calls = 0

\* the state a constructor leaves
Init ==
    /\ shuffle \in Shuffles
    /\ \E k \in {"ner", "slu"}, ip \in InputPaths, lp \in LabelPaths, cp \in ClassPaths,
          iv \in {None, GivenInputVocab}, lv \in {None, GivenLabelVocab},
          cv \in {None, GivenClassVocab} :
          Start(Construct(k, ip, lp, cp, iv, lv, cv, InitialFiles))
    /\ args = [op |-> "__init__"]
    /\ result = [op |-> "__init__", exc |-> "None", value |-> <<>>, reads |-> {}]

\* no builder constructed yet
NoBuilder ==
    [kind |-> "none", _raw_input |-> <<>>, _raw_label |-> <<>>, _raw_class |-> <<>>,
     _input_vocab |-> None, _label_vocab |-> None, _class_vocab |-> None,
     _train_data_path |-> <<>>, _valid_data_path |-> <<>>, files |-> InitialFiles]

\* the state before data_manager/utils.py is used
InitUtils ==
    /\ shuffle \in Shuffles
    /\ Start(NoBuilder)
    /\ args = [op |-> "none"]
    /\ result = [op |-> "none", exc |-> "None", value |-> <<>>, reads |-> {}]

Perm(self) == shuffle[Len(self._raw_input)]

BuildVocabulary ==
    /\ calls < MaxCalls
    /\ kind # "none"
    /\ \E max_size \in MaxSizes, min_freq \in MinFreqs :
        Return("build_vocabulary", [max_size |-> max_size, min_freq |-> min_freq],
               build_vocabulary(Self, max_size, min_freq))

\* the train and validation paths handed to build_trainable_dataset
DatasetPaths == {<<NoPath, NoPath>>, <<AltTrainPath, AltValidPath>>}

\* the paths that cannot be written during one call
Unwritable ==
    {{}, {Join(DeployPath, TRAIN_DATASET_FILENAME), AltTrainPath},
     {Join(DeployPath, VALIDATION_DATASET_FILENAME), AltValidPath}}

BuildTrainableDataset ==
    /\ calls < MaxCalls
    /\ \E paths \in DatasetPaths, unwritable \in Unwritable :
          Return("build_trainable_dataset",
                 [train_data_path |-> paths[1], valid_data_path |-> paths[2],
                  unwritable |-> unwritable],
                 build_trainable_dataset(Self, paths[1], paths[2], Perm(Self), unwritable))

BuildDataLoader ==
    /\ calls < MaxCalls
    /\ Return("build_data_loader", [op |-> "build_data_loader"], build_data_loader(Self))

\* the fresh input, label and class files handed to build_instant_data_loader
InstantFiles ==
    {<<"new_input.txt", "new_label.txt", "new_class.txt">>,
     <<"new_input.txt", "new_label_unseen.txt", "new_class.txt">>,
     <<"new_input.txt", "new_label.txt", "class_ws.txt">>,
     <<"empty.txt", "empty.txt", "empty.txt">>}

BuildInstantDataLoader ==
    /\ calls < MaxCalls
    /\ kind = "slu"
    /\ \E paths \in InstantFiles, data_arg \in {NoPath} :
          Return("build_instant_data_loader",
                 [input_path |-> paths[1], label_path |-> paths[2], class_path |-> paths[3],
                  data_path |-> data_arg],
                 build_instant_data_loader(Self, paths[1], paths[2], paths[3], data_arg))

\* the task types and directories handed to load_vocab_dir
VocabDirs ==
    {<<"ner", <<"tmp">> >>, <<"word_segment", <<"tmp">> >>, <<"slu", <<"tmp">> >>,
     <<"pos", <<"tmp">> >>, <<"slu", <<"elsewhere">> >>}

LoadVocabDir ==
    /\ calls < MaxCalls
    /\ \E inp \in VocabDirs :
          Return("load_vocab_dir", [type |-> inp[1], dir_path |-> inp[2]],
                 load_vocab_dir(Self, inp[1], inp[2]))

\* the task types handed to create_builder, each with the file of its 'intents'
BuilderTypes ==
    {<<"ner", "empty.txt">>, <<"slu", "class.txt">>, <<"slu", "class_ws.txt">>,
     <<"pos", "empty.txt">>}

CreateBuilder ==
    /\ calls < MaxCalls
    /\ \E inp \in BuilderTypes, vocab_path \in {NoPath, GivenVocabPath},
          vocab_min_freq \in {NoMinFreq, MaxMinFreq}, ip \in InputPaths :
          LET dataset_configs ==
                  [vocab_path |-> vocab_path, vocab_min_freq |-> vocab_min_freq,
                   input |-> ip, label |-> "label.txt", class |-> inp[2]]
          IN Return("create_builder", [type |-> inp[1], dataset_configs |-> dataset_configs],
                    create_builder(Self, inp[1], dataset_configs, shuffle[Len(TextFile(ip))],
                                   {}))

\* one builder through its life
Next ==
    \/ BuildVocabulary
    \/ BuildTrainableDataset
    \/ BuildDataLoader
    \/ BuildInstantDataLoader

Spec == Init /\ [][Next]_vars

\* the functions of data_manager/utils.py
NextUtils ==
    \/ CreateBuilder
    \/ LoadVocabDir
    \/ BuildVocabulary

SpecUtils == InitUtils /\ [][NextUtils]_vars

(***************************************************************************)
(* _numerize_from_text on its own                                          *)
(***************************************************************************)
\* the sequences over S of length at most n
SeqsUpTo(S, n) == UNION {[1..m -> S] : m \in 0..n}

\* the vocabularies handed to _numerize_from_text
NumerizeVocabs ==
    {None,
     fit(Vocabulary(NoMaxSize, 1, UNK, PAD, NoToken, NoToken), << <<<<"a">>>> >>),
     fit(Vocabulary(NoMaxSize, 1, NoToken, PAD, BOS, EOS), << <<<<"a">>, <<"a", "a">>>> >>)}

\* before a call of _numerize_from_text(data, vocab)
InitNumerize ==
    /\ shuffle \in {[n \in CorpusSizes |-> [i \in 1..n |-> i]]}
    /\ Start(NoBuilder)
    /\ \E data \in SeqsUpTo(SeqsUpTo(Chars, MaxLineLen), MaxLines), vocab \in NumerizeVocabs :
          args = [data |-> data, vocab |-> vocab]
    /\ result = [op |-> "none", exc |-> "None", value |-> <<>>, reads |-> {}]

Numerize ==
    /\ calls = 0
    /\ \E out \in {_numerize_from_text(args.data, args.vocab)} :
          Return("_numerize_from_text", args, Outcome(Self, out.exc, out.val, {}))

NextNumerize == Numerize

SpecNumerize == InitNumerize /\ [][NextNumerize]_vars

(***************************************************************************)
(* Properties                                                              *)
(***************************************************************************)
Last(s) == s[Len(s)]

\* the positions of a line where a token starts
TokenStarts(line) ==
    {i \in 1..Len(line) : line[i] \notin Whitespace /\ (i = 1 \/ line[i - 1] \in Whitespace)}

\* the token of a line that starts at position i
TokenAt(line, i) ==
    SubSeq(line, i, CHOOSE e \in i..Len(line) :
                       /\ \A j \in i..e : line[j] \notin Whitespace
                       /\ (e = Len(line) \/ line[e + 1] \in Whitespace))

\* the whitespace-separated tokens of a line, left to right
Tokens(line) ==
    [k \in 1..Cardinality(TokenStarts(line)) |->
        TokenAt(line, CHOOSE i \in TokenStarts(line) :
                         Cardinality({j \in TokenStarts(line) : j < i}) = k - 1)]

\* the index sequence of a line under a vocabulary
Numerized(line, vocab) == to_indices(vocab, Tokens(line)).val

\* the streams of the builder: the field of the dataset files, the raw lines, the vocabulary
Streams(k, ri, rl, rc, iv, lv, cv) ==
    IF k = "ner"
    THEN << [field |-> "inputs", raw |-> ri, vocab |-> iv],
            [field |-> "entities", raw |-> rl, vocab |-> lv] >>
    ELSE << [field |-> "inputs", raw |-> ri, vocab |-> iv],
            [field |-> "slots", raw |-> rl, vocab |-> lv],
            [field |-> "intents", raw |-> rc, vocab |-> cv] >>

\* every field of the train file holds lines p[1..k] and every field of the validation
\* file lines p[k+1..n], numerized, in that order
SplitBy(streams, fs, train_path, valid_path, p, k) ==
    \A s \in 1..Len(streams) :
        LET st == streams[s]
            n == Len(st.raw)
        IN /\ fs[train_path][st.field] = [i \in 1..k |-> Numerized(st.raw[p[i]], st.vocab)]
           /\ fs[valid_path][st.field] =
                  [i \in 1..(n - k) |-> Numerized(st.raw[p[k + i]], st.vocab)]

\* C1: build_trainable_dataset called while a vocabulary it numerizes against is absent
\* (input, label, and for SLU the class vocabulary) fails with ValueError, writes no file
\* and records no path.
C1_AbsentVocabularyIsValueError ==
    [][(/\ result'.op = "build_trainable_dataset"
        /\ \/ ~input_vocab.present
           \/ ~label_vocab.present
           \/ (kind = "slu" /\ ~class_vocab.present))
       => (/\ result'.exc = "ValueError"
           /\ UNCHANGED <<files, train_data_path, valid_data_path>>)]_vars

\* C2: after a successful build_trainable_dataset all streams are split by the same line
\* indices: some arrangement p of the lines 1..n and some k put line p[i] at entry i of
\* every field of the train file for i <= k, and line p[k+i] at entry i of every field of
\* the validation file, so the partitions are disjoint and cover every line once.
C2_PartitionsAligned ==
    (result.op = "build_trainable_dataset" /\ result.exc = "None") =>
        LET n == Len(raw_input)
            streams == Streams(kind, raw_input, raw_label, raw_class,
                               input_vocab, label_vocab, class_vocab)
        IN /\ \A s \in 1..Len(streams) : Len(streams[s].raw) = n
           /\ \E p \in ShufflesOf(n), k \in 0..n :
                  SplitBy(streams, files, Last(train_data_path), Last(valid_data_path), p, k)

C2_Witness ==
    /\ result.op = "build_trainable_dataset"
    /\ result.exc = "None"
    /\ kind = "slu"
    /\ Len(files[Last(train_data_path)].intents) = 2
    /\ Len(files[Last(valid_data_path)].intents) = 1

\* C3: in SLUDatasetBuilder, after build_vocabulary followed by build_trainable_dataset,
\* every entry of 'intents' in both files is one index, the class-vocabulary index of the
\* example's whole intent line.
C3_OneIntentPerExample ==
    [][(/\ kind = "slu"
        /\ result.op = "build_vocabulary"
        /\ result'.op = "build_trainable_dataset"
        /\ result'.exc = "None")
       => \E p \in ShufflesOf(Len(raw_class)), k \in 0..Len(raw_class) :
              /\ files'[Last(train_data_path')].intents =
                     [i \in 1..k |-> <<IndexOf(class_vocab', raw_class'[p[i]])>>]
              /\ files'[Last(valid_data_path')].intents =
                     [i \in 1..(Len(raw_class) - k) |->
                         <<IndexOf(class_vocab', raw_class'[p[k + i]])>>]]_vars

\* C4: build_data_loader reads the train and validation files recorded by the most recent
\* successful build_trainable_dataset, and loads nothing before one has succeeded.
C4_LoaderReadsMostRecent ==
    result.op = "build_data_loader" =>
        IF train_data_path = <<>> THEN result.exc # "None"
        ELSE /\ result.exc = "None"
             /\ result.reads = {Last(train_data_path), Last(valid_data_path)}
             /\ result.value = [train |-> files[Last(train_data_path)],
                                valid |-> files[Last(valid_data_path)]]

\* C5: _numerize_from_text(data, vocab) returns one index sequence per line, in order,
\* the i-th being vocab.to_indices of the whitespace-separated tokens of line i and as long
\* as the line has tokens; lines without tokens give empty index sequences, not an error.
C5_NumerizeFromText ==
    result.op = "_numerize_from_text" =>
        /\ result.exc = "None" =>
              /\ Len(result.value) = Len(args.data)
              /\ \A i \in 1..Len(args.data) :
                    /\ result.value[i] = Numerized(args.data[i], args.vocab)
                    /\ Len(result.value[i]) = Cardinality(TokenStarts(args.data[i]))
        /\ (args.vocab.present /\ \A i \in 1..Len(args.data) : TokenStarts(args.data[i]) = {}) =>
              /\ result.exc = "None"
              /\ \A i \in 1..Len(args.data) : result.value[i] = <<>>

C5_Witness ==
    /\ result.op = "_numerize_from_text"
    /\ result.exc = "None"
    /\ Len(args.data) = 2
    /\ Len(result.value[1]) = 2
    /\ args.data[2] # <<>>
    /\ result.value[2] = <<>>

\* C6: build_instant_data_loader leaves the vocabularies, the raw corpus and the recorded
\* paths of the builder as they were, and the file it saves holds under 'inputs', 'slots'
\* and 'intents' one entry per line of the file loaded for it, in file order.
C6_InstantLoader ==
    [][result'.op = "build_instant_data_loader" =>
          /\ UNCHANGED <<input_vocab, label_vocab, class_vocab, raw_input, raw_label,
                         raw_class, train_data_path, valid_data_path>>
          /\ result'.exc = "None" =>
                LET saved == files'[Join(DeployPath, INSTANT_DATASET_FILENAME)]
                    Loaded(field, path, vocab) ==
                        /\ Len(saved[field]) = Len(TextFile(path))
                        /\ \A i \in 1..Len(TextFile(path)) :
                               saved[field][i] = Numerized(TextFile(path)[i], vocab)
                IN /\ DOMAIN saved = {"inputs", "slots", "intents"}
                   /\ Loaded("inputs", args'.input_path, input_vocab)
                   /\ Loaded("slots", args'.label_path, label_vocab)
                   /\ Loaded("intents", args'.class_path, class_vocab)]_vars

C6_Witness ==
    /\ result.op = "build_instant_data_loader"
    /\ result.exc = "None"
    /\ train_data_path # <<>>
    /\ Len(result.value.inputs) = 2

\* C7: load_vocab_dir returns exactly {input_vocab, label_vocab} for 'ner' and
\* 'word_segment' and exactly {input_vocab, label_vocab, class_vocab} for 'slu', each read
\* from its own file under the directory; for another type it fails with ValueError and
\* reads no file.
C7_LoadVocabDir ==
    result.op = "load_vocab_dir" =>
        LET dir == Join(args.dir_path, "dataset")
            input_path == Join(dir, INPUT_VOCAB_FILENAME)
            label_path == Join(dir, TAG_VOCAB_FILENAME)
            class_path == Join(dir, CLASS_VOCAB_FILENAME)
        IN IF args.type \in {"ner", "word_segment"}
           THEN result.exc = "None" =>
                   /\ DOMAIN result.value = {"input_vocab", "label_vocab"}
                   /\ result.reads = {input_path, label_path}
                   /\ to_json(result.value.input_vocab) = files[input_path]
                   /\ to_json(result.value.label_vocab) = files[label_path]
           ELSE IF args.type = "slu"
           THEN result.exc = "None" =>
                   /\ DOMAIN result.value = {"input_vocab", "label_vocab", "class_vocab"}
                   /\ result.reads = {input_path, label_path, class_path}
                   /\ to_json(result.value.input_vocab) = files[input_path]
                   /\ to_json(result.value.label_vocab) = files[label_path]
                   /\ to_json(result.value.class_vocab) = files[class_path]
           ELSE result.exc = "ValueError" /\ result.reads = {}

C7_Witness ==
    /\ result.op = "load_vocab_dir"
    /\ args.type = "slu"
    /\ result.exc = "None"
    /\ result.value.class_vocab.idx_to_word # <<>>

\* C8: the recorded train and validation paths are equally many and name files that are
\* on disk; paths are recorded only by a build_trainable_dataset that raised nothing, one
\* train and one validation path at a time; and a build_trainable_dataset whose
\* numerization fails writes no file and records no path.
C8_NumerizeBeforeWrite ==
    [][/\ Len(train_data_path') = Len(valid_data_path')
       /\ \A i \in 1..Len(train_data_path') :
              train_data_path'[i] \in DOMAIN files' /\ valid_data_path'[i] \in DOMAIN files'
       /\ (train_data_path' # train_data_path \/ valid_data_path' # valid_data_path) =>
              /\ result'.op = "build_trainable_dataset"
              /\ result'.exc = "None"
              /\ \E tp, vp \in DOMAIN files' :
                     /\ train_data_path' = Append(train_data_path, tp)
                     /\ valid_data_path' = Append(valid_data_path, vp)
       /\ (/\ result'.op = "build_trainable_dataset"
           /\ result'.exc \in {"ConfigurationError", "AttributeError"}) =>
              UNCHANGED <<files, train_data_path, valid_data_path>>]_vars

C8_Witness ==
    /\ result.op = "build_trainable_dataset"
    /\ result.exc = "ConfigurationError"
    /\ kind = "slu"
    /\ input_vocab.present /\ label_vocab.present /\ class_vocab.present

\* C9: after build_vocabulary, whatever max_size and min_freq it was given, every label
\* token of every line of the raw corpus is in the tag vocabulary.
C9_LabelsClosed ==
    result.op = "build_vocabulary" =>
        \A i \in 1..Len(raw_label) :
            \A t \in Range(Tokens(raw_label[i])) : t \in Range(label_vocab.idx_to_word)

C9_Witness ==
    /\ result.op = "build_vocabulary"
    /\ args.min_freq = MaxMinFreq
    /\ args.max_size = MaxVocabSize
    /\ \E i \in 1..Len(raw_label) :
           \E t \in Range(Tokens(raw_label[i])) :
               /\ Frequency(Flatten(_splitify(raw_label)), t) < args.min_freq
               /\ t \in Range(label_vocab.idx_to_word)

\* the vocabularies fitted on the builder's own corpus
FittedOnCorpus(max_size, min_freq) ==
    LET tokens(raw) == [i \in 1..Len(raw) |-> Tokens(raw[i])]
    IN /\ input_vocab = fit(Vocabulary(max_size, min_freq, UNK, PAD, NoToken, NoToken),
                            tokens(raw_input))
       /\ label_vocab = fit(Vocabulary(NoMaxSize, 1, NoToken, PAD, BOS, EOS), tokens(raw_label))
       /\ kind = "slu" =>
              class_vocab = fit(Vocabulary(NoMaxSize, 1, NoToken, NoToken, NoToken, NoToken),
                                <<raw_class>>)

====
